---- MODULE Spec2Model ----
(***************************************************************************)
(* Model of questions.py: the cyclic index selector, the resolution of     *)
(* BASE_URL while the module is loaded, the scope_files registry and the   *)
(* four prompt builders.                                                   *)
(*                                                                         *)
(* A Python str is a sequence of tokens.  A token is a one-character       *)
(* string, or (inside the prompt templates only) a stretch of fixed        *)
(* template text or a registry path, kept as one token.                    *)
(* A value that may be an int or a str is a record [t, n, s].              *)
(* A call that may raise returns a record [exc, val], exc = "" on return.  *)
(***************************************************************************)
EXTENDS Integers, Sequences, FiniteSets, TLC

(* ------------------------------ bounds --------------------------------- *)
\* longest string tried as GITHUB_RUN_NUMBER and as a str run number
MaxEnvLen == 3
\* integer run numbers tried: -MaxRun .. MaxRun
MaxRun == 9
\* bounds tried as max_index: -2 .. MaxIndex (and MAX_REPO and the default)
MaxIndex == 4
\* longest prompt builder argument tried
MaxArgLen == 1
\* number of prompt builder calls recorded in one run
MaxCalls == 2
\* number of concurrent callers of the prompt builders
MaxCallers == 2

(* ------------------------- module constants ---------------------------- *)
MAX_REPO == 30

SOURCE_REPO ==
    <<"S", "u", "i", "-", "V", "o", "l", "o", "/", "v", "o", "l", "o", "-",
      "s", "m", "a", "r", "t", "-", "c", "o", "n", "t", "r", "a", "c", "t",
      "s">>

REPO_NAME ==
    <<"v", "o", "l", "o", "-", "s", "m", "a", "r", "t", "-", "c", "o", "n",
      "t", "r", "a", "c", "t", "s">>

\* the default of get_cyclic_index's parameter max_index
DefaultMaxIndex == 100

\* variant: the default is "1"
EnvDefault_one == <<"1">>

\* the default given to os.environ.get at line 9
EnvDefault == <<"0">>

\* the str that run_number is compared with at line 17
CanonicalMark == <<"0">>

RunNumberKey == "GITHUB_RUN_NUMBER"

\* "https://deepwiki.com/" of lines 18 and 24
UrlHost ==
    <<"h", "t", "t", "p", "s", ":", "/", "/", "d", "e", "e", "p", "w", "i",
      "k", "i", ".", "c", "o", "m", "/">>

\* "grass-dev-pa/" of line 24
MirrorOrg ==
    <<"g", "r", "a", "s", "s", "-", "d", "e", "v", "-", "p", "a", "/">>

\* the list literal of lines 26-272
ScopeLiteral == <<
    "liquid_staking/sources/stake_pool.move",
    "liquid_staking/sources/manage.move",
    "liquid_staking/sources/fee_config.move",
    "liquid_staking/sources/volo_v1/native_pool.move",
    "liquid_staking/sources/volo_v1/validator_set.move",
    "liquid_staking/sources/volo_v1/ownership.move",
    "liquid_staking/sources/volo_v1/unstake_ticket.move",
    "liquid_staking/sources/volo_v1/math.move",
    "liquid_staking/sources/cert.move",
    "liquid_staking/sources/validator_pool.move",
    "liquid_staking/sources/migration/migrate.move",
    "volo-vault/sources/utils.move",
    "volo-vault/sources/volo_vault.move",
    "volo-vault/sources/manage.move",
    "volo-vault/sources/operation.move",
    "volo-vault/sources/user_entry.move",
    "volo-vault/sources/vault_receipt_info.move",
    "volo-vault/sources/receipt.move",
    "volo-vault/sources/requests/withdraw_request.move",
    "volo-vault/sources/requests/deposit_request.move",
    "volo-vault/sources/adaptors/momentum.adaptor.move",
    "volo-vault/sources/adaptors/cetus_adaptor.move",
    "volo-vault/sources/adaptors/suilend_adaptor.move",
    "volo-vault/sources/adaptors/receipt_adaptor.move",
    "volo-vault/sources/adaptors/navi_adaptor.move",
    "volo-vault/sources/reward_manager.move",
    "volo-vault/sources/oracle.move",
    "volo-vault/health-limiter/sources/adaptors/navi_limiter.move",
    "volo-vault/local_dependencies/switchboard_sui/on_demand/sources/utils/decimal.move",
    "volo-vault/local_dependencies/switchboard_sui/on_demand/sources/utils/hash.move",
    "volo-vault/local_dependencies/switchboard_sui/on_demand/sources/schemas/queue.move",
    "volo-vault/local_dependencies/switchboard_sui/on_demand/sources/schemas/aggregator.move",
    "volo-vault/local_dependencies/switchboard_sui/on_demand/sources/schemas/oracle.move",
    "volo-vault/local_dependencies/switchboard_sui/on_demand/sources/actions/aggregator/aggregator_set_authority_action.move",
    "volo-vault/local_dependencies/switchboard_sui/on_demand/sources/actions/aggregator/aggregator_init_action.move",
    "volo-vault/local_dependencies/switchboard_sui/on_demand/sources/actions/aggregator/aggregator_set_configs_action.move",
    "volo-vault/local_dependencies/switchboard_sui/on_demand/sources/actions/aggregator/aggregator_delete_action.move",
    "volo-vault/local_dependencies/switchboard_sui/on_demand/sources/actions/aggregator/aggregator_submit_result_action.move",
    "volo-vault/local_dependencies/switchboard_sui/on_demand/sources/actions/oracle/oracle_init_action.move",
    "volo-vault/local_dependencies/switchboard_sui/on_demand/sources/actions/oracle/oracle_attest_action.move",
    "volo-vault/local_dependencies/switchboard_sui/on_demand/sources/actions/state/set_guardian_queue_id_action.move",
    "volo-vault/local_dependencies/switchboard_sui/on_demand/sources/actions/state/set_package_id_action.move",
    "volo-vault/local_dependencies/switchboard_sui/on_demand/sources/actions/state/set_oracle_queue_id_action.move",
    "volo-vault/local_dependencies/switchboard_sui/on_demand/sources/actions/queue/queue_set_authority_action.move",
    "volo-vault/local_dependencies/switchboard_sui/on_demand/sources/actions/queue/queue_set_configs_action.move",
    "volo-vault/local_dependencies/switchboard_sui/on_demand/sources/actions/queue/queue_add_fee_coin_action.move",
    "volo-vault/local_dependencies/switchboard_sui/on_demand/sources/actions/queue/oracle_queue_init_action.move",
    "volo-vault/local_dependencies/switchboard_sui/on_demand/sources/actions/queue/queue_remove_fee_coin_action.move",
    "volo-vault/local_dependencies/switchboard_sui/on_demand/sources/actions/queue/queue_override_oracle_action.move",
    "volo-vault/local_dependencies/switchboard_sui/on_demand/sources/actions/queue/guardian_queue_init_action.move",
    "volo-vault/local_dependencies/switchboard_sui/on_demand/sources/on_demand.move",
    "volo-vault/local_dependencies/mmt_v3/sources/global_config.move",
    "volo-vault/local_dependencies/mmt_v3/sources/pool.move",
    "volo-vault/local_dependencies/mmt_v3/sources/tick.move",
    "volo-vault/local_dependencies/mmt_v3/sources/liquidity.move",
    "volo-vault/local_dependencies/mmt_v3/sources/i128.move",
    "volo-vault/local_dependencies/mmt_v3/sources/collect.move",
    "volo-vault/local_dependencies/mmt_v3/sources/utils/utils.move",
    "volo-vault/local_dependencies/mmt_v3/sources/utils/liquidity_math.move",
    "volo-vault/local_dependencies/mmt_v3/sources/utils/sqrt_price_math.move",
    "volo-vault/local_dependencies/mmt_v3/sources/utils/tick_math.move",
    "volo-vault/local_dependencies/mmt_v3/sources/utils/constants.move",
    "volo-vault/local_dependencies/mmt_v3/sources/utils/swap_math.move",
    "volo-vault/local_dependencies/mmt_v3/sources/utils/comparator.move",
    "volo-vault/local_dependencies/mmt_v3/sources/utils/bit_math.move",
    "volo-vault/local_dependencies/mmt_v3/sources/utils/oracle.move",
    "volo-vault/local_dependencies/mmt_v3/sources/version.move",
    "volo-vault/local_dependencies/mmt_v3/sources/i64.move",
    "volo-vault/local_dependencies/mmt_v3/sources/i32.move",
    "volo-vault/local_dependencies/mmt_v3/sources/position.move",
    "volo-vault/local_dependencies/mmt_v3/sources/create_pool.move",
    "volo-vault/local_dependencies/mmt_v3/sources/trade.move",
    "volo-vault/local_dependencies/protocol/lending_core/sources/account.move",
    "volo-vault/local_dependencies/protocol/lending_core/sources/lending.move",
    "volo-vault/local_dependencies/protocol/lending_core/sources/logic.move",
    "volo-vault/local_dependencies/protocol/lending_core/sources/manage.move",
    "volo-vault/local_dependencies/protocol/lending_core/sources/validation.move",
    "volo-vault/local_dependencies/protocol/lending_core/sources/pool.move",
    "volo-vault/local_dependencies/protocol/lending_core/sources/incentive.move",
    "volo-vault/local_dependencies/protocol/lending_core/sources/storage.move",
    "volo-vault/local_dependencies/protocol/lending_core/sources/error.move",
    "volo-vault/local_dependencies/protocol/lending_core/sources/version.move",
    "volo-vault/local_dependencies/protocol/lending_core/sources/constants.move",
    "volo-vault/local_dependencies/protocol/lending_core/sources/dynamic_calculator.move",
    "volo-vault/local_dependencies/protocol/lending_core/sources/incentive_v3.move",
    "volo-vault/local_dependencies/protocol/lending_core/sources/calculator.move",
    "volo-vault/local_dependencies/protocol/lending_core/sources/incentive_v2.move",
    "volo-vault/local_dependencies/protocol/lending_core/sources/flash_loan.move",
    "volo-vault/local_dependencies/protocol/lending_ui/sources/incentive.move",
    "volo-vault/local_dependencies/protocol/lending_ui/sources/calculate.move",
    "volo-vault/local_dependencies/protocol/lending_ui/sources/getter.move",
    "volo-vault/local_dependencies/protocol/lending_ui/sources/incentive_v3.move",
    "volo-vault/local_dependencies/protocol/oracle/sources/oracle_pro.move",
    "volo-vault/local_dependencies/protocol/oracle/sources/oracle_manage.move",
    "volo-vault/local_dependencies/protocol/oracle/sources/oracle_error.move",
    "volo-vault/local_dependencies/protocol/oracle/sources/adaptor_pyth.move",
    "volo-vault/local_dependencies/protocol/oracle/sources/oracle_provider.move",
    "volo-vault/local_dependencies/protocol/oracle/sources/oracle_dynamic_getter.move",
    "volo-vault/local_dependencies/protocol/oracle/sources/strategy.move",
    "volo-vault/local_dependencies/protocol/oracle/sources/oracle_utils.move",
    "volo-vault/local_dependencies/protocol/oracle/sources/config.move",
    "volo-vault/local_dependencies/protocol/oracle/sources/oracle_version.move",
    "volo-vault/local_dependencies/protocol/oracle/sources/adaptor_supra.move",
    "volo-vault/local_dependencies/protocol/oracle/sources/oracle.move",
    "volo-vault/local_dependencies/protocol/oracle/sources/oracle_constants.move",
    "volo-vault/local_dependencies/protocol/utils/sources/utils.move",
    "volo-vault/local_dependencies/protocol/math/sources/ray_math.move",
    "volo-vault/local_dependencies/protocol/math/sources/safe_math.move",
    "volo-vault/local_dependencies/suilend_d/sprungsui/sources/sprungsui.move",
    "volo-vault/local_dependencies/suilend_d/suilend/sources/staker.move",
    "volo-vault/local_dependencies/suilend_d/suilend/sources/liquidity_mining.move",
    "volo-vault/local_dependencies/suilend_d/suilend/sources/decimal.move",
    "volo-vault/local_dependencies/suilend_d/suilend/sources/reserve_config.move",
    "volo-vault/local_dependencies/suilend_d/suilend/sources/oracles.move",
    "volo-vault/local_dependencies/suilend_d/suilend/sources/rate_limiter.move",
    "volo-vault/local_dependencies/suilend_d/suilend/sources/obligation.move",
    "volo-vault/local_dependencies/suilend_d/suilend/sources/cell.move",
    "volo-vault/local_dependencies/suilend_d/suilend/sources/reserve.move",
    "volo-vault/local_dependencies/suilend_d/suilend/sources/lending_market_registry.move",
    "volo-vault/local_dependencies/suilend_d/suilend/sources/lending_market.move",
    "volo-vault/local_dependencies/suilend_d/suilend/sources/suilend.move",
    "liquid_staking/sources/stake_pool.move",
    "liquid_staking/sources/manage.move",
    "liquid_staking/sources/fee_config.move",
    "liquid_staking/sources/volo_v1/native_pool.move",
    "liquid_staking/sources/volo_v1/validator_set.move",
    "liquid_staking/sources/volo_v1/ownership.move",
    "liquid_staking/sources/volo_v1/unstake_ticket.move",
    "liquid_staking/sources/volo_v1/math.move",
    "liquid_staking/sources/cert.move",
    "liquid_staking/sources/validator_pool.move",
    "liquid_staking/sources/migration/migrate.move",
    "volo-vault/sources/utils.move",
    "volo-vault/sources/volo_vault.move",
    "volo-vault/sources/manage.move",
    "volo-vault/sources/operation.move",
    "volo-vault/sources/user_entry.move",
    "volo-vault/sources/vault_receipt_info.move",
    "volo-vault/sources/receipt.move",
    "volo-vault/sources/requests/withdraw_request.move",
    "volo-vault/sources/requests/deposit_request.move",
    "volo-vault/sources/adaptors/momentum.adaptor.move",
    "volo-vault/sources/adaptors/cetus_adaptor.move",
    "volo-vault/sources/adaptors/suilend_adaptor.move",
    "volo-vault/sources/adaptors/receipt_adaptor.move",
    "volo-vault/sources/adaptors/navi_adaptor.move",
    "volo-vault/sources/reward_manager.move",
    "volo-vault/sources/oracle.move",
    "volo-vault/health-limiter/sources/adaptors/navi_limiter.move",
    "volo-vault/local_dependencies/switchboard_sui/on_demand/sources/utils/decimal.move",
    "volo-vault/local_dependencies/switchboard_sui/on_demand/sources/utils/hash.move",
    "volo-vault/local_dependencies/switchboard_sui/on_demand/sources/schemas/queue.move",
    "volo-vault/local_dependencies/switchboard_sui/on_demand/sources/schemas/aggregator.move",
    "volo-vault/local_dependencies/switchboard_sui/on_demand/sources/schemas/oracle.move",
    "volo-vault/local_dependencies/switchboard_sui/on_demand/sources/actions/aggregator/aggregator_set_authority_action.move",
    "volo-vault/local_dependencies/switchboard_sui/on_demand/sources/actions/aggregator/aggregator_init_action.move",
    "volo-vault/local_dependencies/switchboard_sui/on_demand/sources/actions/aggregator/aggregator_set_configs_action.move",
    "volo-vault/local_dependencies/switchboard_sui/on_demand/sources/actions/aggregator/aggregator_delete_action.move",
    "volo-vault/local_dependencies/switchboard_sui/on_demand/sources/actions/aggregator/aggregator_submit_result_action.move",
    "volo-vault/local_dependencies/switchboard_sui/on_demand/sources/actions/oracle/oracle_init_action.move",
    "volo-vault/local_dependencies/switchboard_sui/on_demand/sources/actions/oracle/oracle_attest_action.move",
    "volo-vault/local_dependencies/switchboard_sui/on_demand/sources/actions/state/set_guardian_queue_id_action.move",
    "volo-vault/local_dependencies/switchboard_sui/on_demand/sources/actions/state/set_package_id_action.move",
    "volo-vault/local_dependencies/switchboard_sui/on_demand/sources/actions/state/set_oracle_queue_id_action.move",
    "volo-vault/local_dependencies/switchboard_sui/on_demand/sources/actions/queue/queue_set_authority_action.move",
    "volo-vault/local_dependencies/switchboard_sui/on_demand/sources/actions/queue/queue_set_configs_action.move",
    "volo-vault/local_dependencies/switchboard_sui/on_demand/sources/actions/queue/queue_add_fee_coin_action.move",
    "volo-vault/local_dependencies/switchboard_sui/on_demand/sources/actions/queue/oracle_queue_init_action.move",
    "volo-vault/local_dependencies/switchboard_sui/on_demand/sources/actions/queue/queue_remove_fee_coin_action.move",
    "volo-vault/local_dependencies/switchboard_sui/on_demand/sources/actions/queue/queue_override_oracle_action.move",
    "volo-vault/local_dependencies/switchboard_sui/on_demand/sources/actions/queue/guardian_queue_init_action.move",
    "volo-vault/local_dependencies/switchboard_sui/on_demand/sources/on_demand.move",
    "volo-vault/local_dependencies/mmt_v3/sources/global_config.move",
    "volo-vault/local_dependencies/mmt_v3/sources/pool.move",
    "volo-vault/local_dependencies/mmt_v3/sources/tick.move",
    "volo-vault/local_dependencies/mmt_v3/sources/liquidity.move",
    "volo-vault/local_dependencies/mmt_v3/sources/i128.move",
    "volo-vault/local_dependencies/mmt_v3/sources/collect.move",
    "volo-vault/local_dependencies/mmt_v3/sources/utils/utils.move",
    "volo-vault/local_dependencies/mmt_v3/sources/utils/liquidity_math.move",
    "volo-vault/local_dependencies/mmt_v3/sources/utils/sqrt_price_math.move",
    "volo-vault/local_dependencies/mmt_v3/sources/utils/tick_math.move",
    "volo-vault/local_dependencies/mmt_v3/sources/utils/constants.move",
    "volo-vault/local_dependencies/mmt_v3/sources/utils/swap_math.move",
    "volo-vault/local_dependencies/mmt_v3/sources/utils/comparator.move",
    "volo-vault/local_dependencies/mmt_v3/sources/utils/bit_math.move",
    "volo-vault/local_dependencies/mmt_v3/sources/utils/oracle.move",
    "volo-vault/local_dependencies/mmt_v3/sources/version.move",
    "volo-vault/local_dependencies/mmt_v3/sources/i64.move",
    "volo-vault/local_dependencies/mmt_v3/sources/i32.move",
    "volo-vault/local_dependencies/mmt_v3/sources/position.move",
    "volo-vault/local_dependencies/mmt_v3/sources/create_pool.move",
    "volo-vault/local_dependencies/mmt_v3/sources/trade.move",
    "volo-vault/local_dependencies/protocol/lending_core/sources/account.move",
    "volo-vault/local_dependencies/protocol/lending_core/sources/lending.move",
    "volo-vault/local_dependencies/protocol/lending_core/sources/logic.move",
    "volo-vault/local_dependencies/protocol/lending_core/sources/manage.move",
    "volo-vault/local_dependencies/protocol/lending_core/sources/validation.move",
    "volo-vault/local_dependencies/protocol/lending_core/sources/pool.move",
    "volo-vault/local_dependencies/protocol/lending_core/sources/incentive.move",
    "volo-vault/local_dependencies/protocol/lending_core/sources/storage.move",
    "volo-vault/local_dependencies/protocol/lending_core/sources/error.move",
    "volo-vault/local_dependencies/protocol/lending_core/sources/version.move",
    "volo-vault/local_dependencies/protocol/lending_core/sources/constants.move",
    "volo-vault/local_dependencies/protocol/lending_core/sources/dynamic_calculator.move",
    "volo-vault/local_dependencies/protocol/lending_core/sources/incentive_v3.move",
    "volo-vault/local_dependencies/protocol/lending_core/sources/calculator.move",
    "volo-vault/local_dependencies/protocol/lending_core/sources/incentive_v2.move",
    "volo-vault/local_dependencies/protocol/lending_core/sources/flash_loan.move",
    "volo-vault/local_dependencies/protocol/lending_ui/sources/incentive.move",
    "volo-vault/local_dependencies/protocol/lending_ui/sources/calculate.move",
    "volo-vault/local_dependencies/protocol/lending_ui/sources/getter.move",
    "volo-vault/local_dependencies/protocol/lending_ui/sources/incentive_v3.move",
    "volo-vault/local_dependencies/protocol/oracle/sources/oracle_pro.move",
    "volo-vault/local_dependencies/protocol/oracle/sources/oracle_manage.move",
    "volo-vault/local_dependencies/protocol/oracle/sources/oracle_error.move",
    "volo-vault/local_dependencies/protocol/oracle/sources/adaptor_pyth.move",
    "volo-vault/local_dependencies/protocol/oracle/sources/oracle_provider.move",
    "volo-vault/local_dependencies/protocol/oracle/sources/oracle_dynamic_getter.move",
    "volo-vault/local_dependencies/protocol/oracle/sources/strategy.move",
    "volo-vault/local_dependencies/protocol/oracle/sources/oracle_utils.move",
    "volo-vault/local_dependencies/protocol/oracle/sources/config.move",
    "volo-vault/local_dependencies/protocol/oracle/sources/oracle_version.move",
    "volo-vault/local_dependencies/protocol/oracle/sources/adaptor_supra.move",
    "volo-vault/local_dependencies/protocol/oracle/sources/oracle.move",
    "volo-vault/local_dependencies/protocol/oracle/sources/oracle_constants.move",
    "volo-vault/local_dependencies/protocol/utils/sources/utils.move",
    "volo-vault/local_dependencies/protocol/math/sources/ray_math.move",
    "volo-vault/local_dependencies/protocol/math/sources/safe_math.move",
    "volo-vault/local_dependencies/suilend_d/sprungsui/sources/sprungsui.move",
    "volo-vault/local_dependencies/suilend_d/suilend/sources/staker.move",
    "volo-vault/local_dependencies/suilend_d/suilend/sources/liquidity_mining.move",
    "volo-vault/local_dependencies/suilend_d/suilend/sources/decimal.move",
    "volo-vault/local_dependencies/suilend_d/suilend/sources/reserve_config.move",
    "volo-vault/local_dependencies/suilend_d/suilend/sources/oracles.move",
    "volo-vault/local_dependencies/suilend_d/suilend/sources/rate_limiter.move",
    "volo-vault/local_dependencies/suilend_d/suilend/sources/obligation.move",
    "volo-vault/local_dependencies/suilend_d/suilend/sources/cell.move",
    "volo-vault/local_dependencies/suilend_d/suilend/sources/reserve.move",
    "volo-vault/local_dependencies/suilend_d/suilend/sources/lending_market_registry.move",
    "volo-vault/local_dependencies/suilend_d/suilend/sources/lending_market.move",
    "volo-vault/local_dependencies/suilend_d/suilend/sources/suilend.move"
>>

(* --------------------------- Python values ----------------------------- *)
IntVal(n) == [t |-> "int", n |-> n, s |-> <<>>]
StrVal(s) == [t |-> "str", n |-> 0, s |-> s]

Return(v) == [exc |-> "", val |-> v]
Raise(e) == [exc |-> e, val |-> 0]

Digits == {"0", "1", "2", "3", "4", "5", "6", "7", "8", "9"}

DigitVal(c) ==
    CASE c = "0" -> 0 [] c = "1" -> 1 [] c = "2" -> 2 [] c = "3" -> 3
      [] c = "4" -> 4 [] c = "5" -> 5 [] c = "6" -> 6 [] c = "7" -> 7
      [] c = "8" -> 8 [] c = "9" -> 9

DigitChar(d) == <<"0", "1", "2", "3", "4", "5", "6", "7", "8", "9">>[d + 1]

Whitespace == {" ", "\t", "\n", "\r", "\f"}

RECURSIVE LStrip(_)
LStrip(s) == IF s # <<>> /\ Head(s) \in Whitespace THEN LStrip(Tail(s)) ELSE s

RECURSIVE RStrip(_)
RStrip(s) ==
    IF s # <<>> /\ s[Len(s)] \in Whitespace
    THEN RStrip(SubSeq(s, 1, Len(s) - 1))
    ELSE s

\* value of a run of decimal digits and underscores, most significant first
RECURSIVE DigitsValue(_, _)
DigitsValue(s, acc) ==
    IF s = <<>> THEN acc
    ELSE IF Head(s) = "_" THEN DigitsValue(Tail(s), acc)
    ELSE DigitsValue(Tail(s), 10 * acc + DigitVal(Head(s)))

\* digits and single underscores between digits
WellFormedDigits(b) ==
    /\ Len(b) >= 1
    /\ \A i \in 1..Len(b) : b[i] \in Digits \cup {"_"}
    /\ b[1] \in Digits
    /\ b[Len(b)] \in Digits
    /\ \A i \in 1..(Len(b) - 1) : ~(b[i] = "_" /\ b[i + 1] = "_")

\* int(x), base 10: an int is returned as it is; a str is stripped of
\* surrounding whitespace, then an optional sign, then the digits
PyInt(x) ==
    IF x.t = "int" THEN Return(x.n)
    ELSE
      LET t == RStrip(LStrip(x.s))
          signed == t # <<>> /\ Head(t) \in {"+", "-"}
          body == IF signed THEN Tail(t) ELSE t
          mag == DigitsValue(body, 0)
      IN  IF ~WellFormedDigits(body) THEN Raise("ValueError")
          ELSE IF signed /\ Head(t) = "-" THEN Return(0 - mag)
          ELSE Return(mag)

\* variant: the remainder of truncated division, with the sign of the
\* dividend
PyMod_truncating(a, b) ==
    IF b = 0 THEN Raise("ZeroDivisionError")
    ELSE LET ma == IF a < 0 THEN 0 - a ELSE a
             mb == IF b < 0 THEN 0 - b ELSE b
         IN  IF a < 0 THEN Return(0 - (ma % mb)) ELSE Return(ma % mb)

\* a % b of Python ints: the remainder has the sign of the divisor
PyMod(a, b) ==
    IF b = 0 THEN Raise("ZeroDivisionError")
    ELSE IF b > 0 THEN Return(a % b)
    ELSE Return(0 - ((0 - a) % (0 - b)))

RECURSIVE DecimalDigits(_)
DecimalDigits(n) ==
    IF n < 10 THEN <<DigitChar(n)>>
    ELSE Append(DecimalDigits(n \div 10), DigitChar(n % 10))

RECURSIVE Zeros(_)
Zeros(k) == IF k <= 0 THEN <<>> ELSE <<"0">> \o Zeros(k - 1)

\* variant: format(n, "3d"), padded with spaces
Format03d_space_padded(n) ==
    LET sign == IF n < 0 THEN <<"-">> ELSE <<>>
        digs == DecimalDigits(IF n < 0 THEN 0 - n ELSE n)
    IN  [i \in 1..(3 - Len(sign) - Len(digs)) |-> " "] \o sign \o digs

\* format(n, "03d"): zero padding between the sign and the digits, up to
\* a total width of 3
Format03d(n) ==
    LET sign == IF n < 0 THEN <<"-">> ELSE <<>>
        digs == DecimalDigits(IF n < 0 THEN 0 - n ELSE n)
    IN  sign \o Zeros(3 - Len(sign) - Len(digs)) \o digs

(* ------------------------- get_cyclic_index ---------------------------- *)
\* variant: int(run_number) % max_index, an index counted from 0
get_cyclic_index_zero_based(run_number_arg, max_index) ==
    LET i == PyInt(run_number_arg)
        r == PyMod(i.val, max_index)
    IN  IF i.exc # "" THEN i
        ELSE IF r.exc # "" THEN r
        ELSE Return(r.val)

\* variant: int(run_number) % max_index + 1, the run number not shifted
get_cyclic_index_no_shift(run_number_arg, max_index) ==
    LET i == PyInt(run_number_arg)
        r == PyMod(i.val, max_index)
    IN  IF i.exc # "" THEN i
        ELSE IF r.exc # "" THEN r
        ELSE Return(r.val + 1)

\* variant: the remainder taken by the default bound, max_index ignored
get_cyclic_index_default_bound(run_number_arg, max_index) ==
    LET i == PyInt(run_number_arg)
        r == PyMod(i.val - 1, 100)
    IN  IF i.exc # "" THEN i
        ELSE IF r.exc # "" THEN r
        ELSE Return(r.val + 1)

\* variant: (int(run_number) + 1) % max_index + 1, the shift reversed
get_cyclic_index_shift_after(run_number_arg, max_index) ==
    LET i == PyInt(run_number_arg)
        r == PyMod(i.val + 1, max_index)
    IN  IF i.exc # "" THEN i
        ELSE IF r.exc # "" THEN r
        ELSE Return(r.val + 1)

\* variant: a run number that does not parse is taken as run 1
get_cyclic_index_fallback(run_number_arg, max_index) ==
    LET i == PyInt(run_number_arg)
        r == PyMod(i.val - 1, max_index)
    IN  IF i.exc # "" THEN Return(1)
        ELSE IF r.exc # "" THEN r
        ELSE Return(r.val + 1)

get_cyclic_index(run_number_arg, max_index) ==
    LET i == PyInt(run_number_arg)
        r == PyMod(i.val - 1, max_index)
    IN  IF i.exc # "" THEN i
        ELSE IF r.exc # "" THEN r
        ELSE Return(r.val + 1)

(* ----------------------------- os.environ ------------------------------ *)
EmptyEnviron == [k \in {} |-> <<>>]

EnvironWith(v) == [k \in {RunNumberKey} |-> v]

\* os.environ.get(key, default)
EnvironGet(e, key, default) == IF key \in DOMAIN e THEN e[key] ELSE default

(* --------------------------- prompt builders --------------------------- *)
\* a stretch of fixed template text, named by builder and source lines
Lit(name) == <<name>>

\* repr of a registry path: the paths hold no quote, backslash or
\* non-printable character, so repr is the path between single quotes
PyReprStr(p) == <<"'", p, "'">>

\* ", ".join(repr(p) for p in l), joined by halves to keep the nesting shallow
RECURSIVE PyReprItems(_)
PyReprItems(l) ==
    IF l = <<>> THEN <<>>
    ELSE IF Len(l) = 1 THEN PyReprStr(l[1])
    ELSE LET h == Len(l) \div 2
         IN  PyReprItems(SubSeq(l, 1, h)) \o <<",", " ">>
               \o PyReprItems(SubSeq(l, h + 1, Len(l)))

\* str(list), which an f-string field without conversion applies to a list
PyStrList(l) == <<"[">> \o PyReprItems(l) \o <<"]">>

\* variant: the template is a plain string, not an f-string, so the text
\* of each replacement field stays in the output
question_generator_plain_string(target_file) ==
    Lit("<question_generator:286-299>") \o <<"{target_file}">>
      \o Lit("<question_generator:299-301>") \o <<"{target_file}">>
      \o Lit("<question_generator:301-346>") \o <<"{target_file}">>
      \o Lit("<question_generator:346-352>") \o <<"{target_file}">>
      \o Lit("<question_generator:352-354>") \o <<"{target_file}">>
      \o Lit("<question_generator:354-369>") \o <<"{target_file}">>
      \o Lit("<question_generator:369-370>")

question_generator(target_file) ==
    Lit("<question_generator:286-299>") \o target_file
      \o Lit("<question_generator:299-301>") \o target_file
      \o Lit("<question_generator:301-346>") \o target_file
      \o Lit("<question_generator:346-352>") \o target_file
      \o Lit("<question_generator:352-354>") \o target_file
      \o Lit("<question_generator:354-369>") \o target_file
      \o Lit("<question_generator:369-370>")

\* variant: the field of line 422 is escaped, so its text stays in the output
validation_format_without_registry(report, registry) ==
    Lit("<validation_format:384-392>") \o report
      \o Lit("<validation_format:392-422>") \o <<"{scope_files}">>
      \o Lit("<validation_format:422-550>")

\* variant: the registry is cut to its first half before it is rendered
validation_format_first_half(report, registry) ==
    Lit("<validation_format:384-392>") \o report
      \o Lit("<validation_format:392-422>")
      \o PyStrList(SubSeq(registry, 1, Len(registry) \div 2))
      \o Lit("<validation_format:422-550>")

\* str.format applied to a short text: each {scope_files} field in it is
\* replaced by the rendered registry
RECURSIVE ExpandFields(_, _)
ExpandFields(text, registry) ==
    IF text = <<>> THEN <<>>
    ELSE (IF Head(text) = "{scope_files}" THEN PyStrList(registry)
          ELSE <<Head(text)>>) \o ExpandFields(Tail(text), registry)

\* variant: the rendered prompt goes through str.format once more, which
\* expands the fields that the report brought in
validation_format_reexpanding(report, registry) ==
    Lit("<validation_format:384-392>") \o ExpandFields(report, registry)
      \o Lit("<validation_format:392-422>") \o PyStrList(registry)
      \o Lit("<validation_format:422-550>")

\* registry is the value of the global scope_files when the call is made
validation_format(report, registry) ==
    Lit("<validation_format:384-392>") \o report
      \o Lit("<validation_format:392-422>") \o PyStrList(registry)
      \o Lit("<validation_format:422-550>")

audit_format(security_question) ==
    Lit("<audit_format:565-568>") \o security_question
      \o Lit("<audit_format:568-724>") \o security_question
      \o Lit("<audit_format:724-725>")

scan_format(report) ==
    Lit("<scan_format:741-744>") \o report
      \o Lit("<scan_format:744-868>")

\* the call fn(arg) of a prompt builder, by name
BuilderOutput(fn, arg, registry) ==
    CASE fn = "question_generator" -> question_generator(arg)
      [] fn = "validation_format" -> validation_format(arg, registry)
      [] fn = "audit_format" -> audit_format(arg)
      [] fn = "scan_format" -> scan_format(arg)

\* the number of replacement fields that name the builder's parameter
ParameterFields(fn) ==
    CASE fn = "question_generator" -> 6
      [] fn = "validation_format" -> 1
      [] fn = "audit_format" -> 2
      [] fn = "scan_format" -> 1

(* ------------------------------- state --------------------------------- *)
VARIABLES
    environ,      \* os.environ, restricted to GITHUB_RUN_NUMBER
    pc,           \* the statement of the module that runs next
    ns,           \* the names bound in the module's namespace
    run_number,   \* module global, line 9
    run_index,    \* module global, line 21
    repo_number,  \* module global, line 23
    BASE_URL,     \* module global, lines 18 and 24
    scope_files,  \* module global, line 26
    exc,          \* the exception that ended the load, "" if none
    n_cyclic,     \* number of calls of get_cyclic_index so far
    calls,        \* the prompt builder calls made so far, with their results
    cy,           \* a direct call of get_cyclic_index: arguments and result
    n_env_reads,  \* number of reads of os.environ so far
    threads       \* per concurrent caller, its prompt builder call in progress

vars == <<environ, pc, ns, run_number, run_index, repo_number, BASE_URL,
          scope_files, exc, n_cyclic, calls, cy, n_env_reads, threads>>

BuilderNames ==
    {"question_generator", "validation_format", "audit_format", "scan_format"}

NoCall == [r |-> IntVal(0), m |-> 0, called |-> FALSE, res |-> Return(0)]

\* the concurrent callers of the prompt builders
Callers == 1..MaxCallers

\* a caller that has not called yet
Idle == [stage |-> "idle", fn |-> "", arg |-> <<>>, out |-> <<>>]

\* strings of at most n characters of alphabet A
StringsUpTo(A, n) == UNION {[1..k -> A] : k \in 0..n}

EnvAlphabet == {"0", "1", "3", "+", "-", " ", "_", "x"}

EnvStrings == StringsUpTo(EnvAlphabet, MaxEnvLen)

\* every environment tried by the load: the variable absent, or set
AllEnvirons == {EmptyEnviron} \cup {EnvironWith(v) : v \in EnvStrings}

\* the environments tried together with the prompt builders
SomeEnvirons ==
    {EmptyEnviron} \cup
    {EnvironWith(v) : v \in {<<"3", "1">>, <<"x">>}}

\* a plain character, and the text of a replacement field, braces included,
\* kept as one token
ArgAlphabet == {"a", "{scope_files}"}

ArgStrings == StringsUpTo(ArgAlphabet, MaxArgLen)

\* the state before the first statement of the module has run
Fresh ==
    /\ pc = "import"
    /\ ns = {}
    /\ run_number = <<>>
    /\ run_index = 0
    /\ repo_number = <<>>
    /\ BASE_URL = <<>>
    /\ scope_files = <<>>
    /\ exc = ""
    /\ n_cyclic = 0
    /\ calls = <<>>
    /\ cy = NoCall
    /\ n_env_reads = 0
    /\ threads = [c \in Callers |-> Idle]

Init == environ \in SomeEnvirons /\ Fresh

InitLoad == environ \in AllEnvirons /\ Fresh

(* --------------------------- loading the module ------------------------ *)
\* lines 1-4
Import ==
    /\ pc = "import"
    /\ ns' = ns \cup {"json", "os", "config"}
    /\ pc' = "constants"
    /\ UNCHANGED <<threads, n_env_reads,
                   environ, run_number, run_index, repo_number, BASE_URL,
                   scope_files, exc, n_cyclic, calls, cy>>

\* lines 6-8
DefineConstants ==
    /\ pc = "constants"
    /\ ns' = ns \cup {"MAX_REPO", "SOURCE_REPO", "REPO_NAME"}
    /\ pc' = "read_env"
    /\ UNCHANGED <<threads, n_env_reads,
                   environ, run_number, run_index, repo_number, BASE_URL,
                   scope_files, exc, n_cyclic, calls, cy>>

\* line 9
ReadRunNumber ==
    /\ pc = "read_env"
    /\ run_number' = EnvironGet(environ, RunNumberKey, EnvDefault)
    /\ n_env_reads' = n_env_reads + 1
    /\ ns' = ns \cup {"run_number"}
    /\ pc' = "def_get_cyclic_index"
    /\ UNCHANGED <<threads, environ, run_index, repo_number, BASE_URL,
                   scope_files, exc, n_cyclic, calls, cy>>

\* lines 12-14
DefineCyclicIndex ==
    /\ pc = "def_get_cyclic_index"
    /\ ns' = ns \cup {"get_cyclic_index"}
    /\ pc' = "resolve"
    /\ UNCHANGED <<threads, n_env_reads,
                   environ, run_number, run_index, repo_number, BASE_URL,
                   scope_files, exc, n_cyclic, calls, cy>>

\* variant: the canonical URL built from REPO_NAME
ResolveCanonical_repo_name ==
    /\ pc = "resolve"
    /\ run_number = CanonicalMark
    /\ BASE_URL' = UrlHost \o REPO_NAME
    /\ ns' = ns \cup {"BASE_URL"}
    /\ pc' = "scope"
    /\ UNCHANGED <<threads, n_env_reads,
                   environ, run_number, run_index, repo_number, scope_files,
                   exc, n_cyclic, calls, cy>>

\* variant: line 17 compares numbers, int(run_number) == 0
ResolveCanonical_numeric ==
    /\ pc = "resolve"
    /\ PyInt(StrVal(run_number)) = Return(0)
    /\ BASE_URL' = UrlHost \o SOURCE_REPO
    /\ ns' = ns \cup {"BASE_URL"}
    /\ pc' = "scope"
    /\ UNCHANGED <<threads, n_env_reads,
                   environ, run_number, run_index, repo_number, scope_files,
                   exc, n_cyclic, calls, cy>>

\* lines 17-18
ResolveCanonical ==
    /\ pc = "resolve"
    /\ run_number = CanonicalMark
    /\ BASE_URL' = UrlHost \o SOURCE_REPO
    /\ ns' = ns \cup {"BASE_URL"}
    /\ pc' = "scope"
    /\ UNCHANGED <<threads, n_env_reads,
                   environ, run_number, run_index, repo_number, scope_files,
                   exc, n_cyclic, calls, cy>>

\* variant: line 21 reads os.environ again instead of the global run_number
ResolveMirror_rereading ==
    /\ pc = "resolve"
    /\ run_number # CanonicalMark
    /\ LET r == get_cyclic_index(
                    StrVal(EnvironGet(environ, RunNumberKey, EnvDefault)),
                    MAX_REPO)
       IN  /\ r.exc = ""
           /\ run_index' = r.val
           /\ repo_number' = Format03d(r.val)
           /\ BASE_URL' = UrlHost \o MirrorOrg \o REPO_NAME \o <<"-">>
                            \o Format03d(r.val)
    /\ n_env_reads' = n_env_reads + 1
    /\ n_cyclic' = n_cyclic + 1
    /\ ns' = ns \cup {"run_index", "repo_number", "BASE_URL"}
    /\ pc' = "scope"
    /\ UNCHANGED <<threads, environ, run_number, scope_files, exc, calls, cy>>

\* variant: line 21 calls get_cyclic_index(run_number), max_index left to
\* its default
ResolveMirror_default_bound ==
    /\ pc = "resolve"
    /\ run_number # CanonicalMark
    /\ LET r == get_cyclic_index(StrVal(run_number), DefaultMaxIndex)
       IN  /\ r.exc = ""
           /\ run_index' = r.val
           /\ repo_number' = Format03d(r.val)
           /\ BASE_URL' = UrlHost \o MirrorOrg \o REPO_NAME \o <<"-">>
                            \o Format03d(r.val)
    /\ n_cyclic' = n_cyclic + 1
    /\ ns' = ns \cup {"run_index", "repo_number", "BASE_URL"}
    /\ pc' = "scope"
    /\ UNCHANGED <<threads, n_env_reads,
                   environ, run_number, scope_files, exc, calls, cy>>

\* lines 19-24, get_cyclic_index returns
ResolveMirror ==
    /\ pc = "resolve"
    /\ run_number # CanonicalMark
    /\ LET r == get_cyclic_index(StrVal(run_number), MAX_REPO)
       IN  /\ r.exc = ""
           /\ run_index' = r.val
           /\ repo_number' = Format03d(r.val)
           /\ BASE_URL' = UrlHost \o MirrorOrg \o REPO_NAME \o <<"-">>
                            \o Format03d(r.val)
    /\ n_cyclic' = n_cyclic + 1
    /\ ns' = ns \cup {"run_index", "repo_number", "BASE_URL"}
    /\ pc' = "scope"
    /\ UNCHANGED <<threads, n_env_reads,
                   environ, run_number, scope_files, exc, calls, cy>>

\* variant: the exception is caught around line 21 and the load goes on,
\* BASE_URL left unassigned
ResolveRaises_swallowing ==
    /\ pc = "resolve"
    /\ run_number # CanonicalMark
    /\ LET r == get_cyclic_index(StrVal(run_number), MAX_REPO)
       IN  r.exc # ""
    /\ n_cyclic' = n_cyclic + 1
    /\ pc' = "scope"
    /\ UNCHANGED <<threads, n_env_reads,
                   environ, ns, run_number, run_index, repo_number, BASE_URL,
                   scope_files, exc, calls, cy>>

\* lines 19-21, get_cyclic_index raises: the exception leaves the module
ResolveRaises ==
    /\ pc = "resolve"
    /\ run_number # CanonicalMark
    /\ LET r == get_cyclic_index(StrVal(run_number), MAX_REPO)
       IN  /\ r.exc # ""
           /\ exc' = r.exc
    /\ n_cyclic' = n_cyclic + 1
    /\ pc' = "failed"
    /\ UNCHANGED <<threads, n_env_reads,
                   environ, ns, run_number, run_index, repo_number, BASE_URL,
                   scope_files, calls, cy>>

\* variant: the list literal lacks its first entry
DefineScope_dropping_one ==
    /\ pc = "scope"
    /\ scope_files' = Tail(ScopeLiteral)
    /\ ns' = ns \cup {"scope_files"}
    /\ pc' = "def_builders"
    /\ UNCHANGED <<threads, n_env_reads,
                   environ, run_number, run_index, repo_number, BASE_URL,
                   exc, n_cyclic, calls, cy>>

\* lines 26-272
DefineScope ==
    /\ pc = "scope"
    /\ scope_files' = ScopeLiteral
    /\ ns' = ns \cup {"scope_files"}
    /\ pc' = "def_builders"
    /\ UNCHANGED <<threads, n_env_reads,
                   environ, run_number, run_index, repo_number, BASE_URL,
                   exc, n_cyclic, calls, cy>>

\* lines 275, 374, 554 and 730: the four def statements
DefineBuilders ==
    /\ pc = "def_builders"
    /\ ns' = ns \cup BuilderNames
    /\ pc' = "loaded"
    /\ UNCHANGED <<threads, n_env_reads,
                   environ, run_number, run_index, repo_number, BASE_URL,
                   scope_files, exc, n_cyclic, calls, cy>>

Load ==
    \/ Import
    \/ DefineConstants
    \/ ReadRunNumber
    \/ DefineCyclicIndex
    \/ ResolveCanonical
    \/ ResolveMirror
    \/ ResolveRaises
    \/ DefineScope
    \/ DefineBuilders

(* ------------------------ calls from the importer ---------------------- *)
\* the record of a finished call: res is what the call returned or raised
Called(fn, arg, res) ==
    [fn |-> fn, arg |-> arg, exc |-> res.exc,
     out |-> IF res.exc = "" THEN res.val ELSE <<>>]

CanCall(fn) == pc = "loaded" /\ fn \in ns /\ Len(calls) < MaxCalls

Call_question_generator(target_file) ==
    /\ CanCall("question_generator")
    /\ calls' = Append(calls, Called("question_generator", target_file,
                                     Return(question_generator(target_file))))
    /\ UNCHANGED <<threads, n_env_reads,
                   environ, pc, ns, run_number, run_index, repo_number,
                   BASE_URL, scope_files, exc, n_cyclic, cy>>

\* variant: the report is appended to the registry before it is rendered
Call_validation_format_appending(report) ==
    /\ CanCall("validation_format")
    /\ scope_files' = Append(scope_files, "<report>")
    /\ calls' = Append(calls,
                       Called("validation_format", report,
                              Return(validation_format(report, scope_files'))))
    /\ UNCHANGED <<threads, n_env_reads,
                   environ, pc, ns, run_number, run_index, repo_number,
                   BASE_URL, exc, n_cyclic, cy>>

Call_validation_format(report) ==
    /\ CanCall("validation_format")
    /\ calls' = Append(calls,
                       Called("validation_format", report,
                              Return(validation_format(report, scope_files))))
    /\ UNCHANGED <<threads, n_env_reads,
                   environ, pc, ns, run_number, run_index, repo_number,
                   BASE_URL, scope_files, exc, n_cyclic, cy>>

\* variant: the rendered prompt goes through str.format(security_question=
\* ...) once more, which raises on a field it has no value for
Call_audit_format_reformatting(security_question) ==
    /\ CanCall("audit_format")
    /\ calls' = Append(calls,
                       Called("audit_format", security_question,
                              IF \E i \in 1..Len(security_question) :
                                     security_question[i] = "{scope_files}"
                              THEN Raise("KeyError")
                              ELSE Return(audit_format(security_question))))
    /\ UNCHANGED <<threads, n_env_reads,
                   environ, pc, ns, run_number, run_index, repo_number,
                   BASE_URL, scope_files, exc, n_cyclic, cy>>

Call_audit_format(security_question) ==
    /\ CanCall("audit_format")
    /\ calls' = Append(calls, Called("audit_format", security_question,
                                     Return(audit_format(security_question))))
    /\ UNCHANGED <<threads, n_env_reads,
                   environ, pc, ns, run_number, run_index, repo_number,
                   BASE_URL, scope_files, exc, n_cyclic, cy>>

Call_scan_format(report) ==
    /\ CanCall("scan_format")
    /\ calls' = Append(calls, Called("scan_format", report,
                                     Return(scan_format(report))))
    /\ UNCHANGED <<threads, n_env_reads,
                   environ, pc, ns, run_number, run_index, repo_number,
                   BASE_URL, scope_files, exc, n_cyclic, cy>>

Next ==
    \/ Load
    \/ \E a \in ArgStrings : Call_question_generator(a)
    \/ \E a \in ArgStrings : Call_validation_format(a)
    \/ \E a \in ArgStrings : Call_audit_format(a)
    \/ \E a \in ArgStrings : Call_scan_format(a)

Spec == Init /\ [][Next]_vars

NextLoad == Load

SpecLoad == InitLoad /\ [][NextLoad]_vars

(* ------------------- the environment changes --------------------------- *)
\* the environments the process may find itself in, before or after the load
EnvChoices ==
    {EmptyEnviron} \cup
    {EnvironWith(v) :
       v \in {<<"0">>, <<"1", "3">>, <<"3", "0">>, <<"3", "1">>, <<"x">>}}

\* GITHUB_RUN_NUMBER is set, changed or removed in os.environ
ChangeEnviron(e) ==
    /\ e # environ
    /\ environ' = e
    /\ UNCHANGED <<threads, n_env_reads, pc, ns, run_number, run_index,
                   repo_number, BASE_URL, scope_files, exc, n_cyclic, calls,
                   cy>>

InitEnv == environ \in EnvChoices /\ Fresh

NextEnv ==
    \/ Load
    \/ \E e \in EnvChoices : ChangeEnviron(e)

SpecEnv == InitEnv /\ [][NextEnv]_vars

(* ---------------------- concurrent callers ----------------------------- *)
\* the arguments the concurrent callers pass
ThreadArgs == {<<"a">>, <<"{scope_files}">>}

\* variant: the builder appends its argument to the registry on entry
Begin_appending(c, fn, arg) ==
    /\ pc = "loaded"
    /\ fn \in ns
    /\ threads[c].stage = "idle"
    /\ threads' = [threads EXCEPT ![c] = [stage |-> "entered", fn |-> fn,
                                          arg |-> arg, out |-> <<>>]]
    /\ scope_files' = Append(scope_files, "<arg>")
    /\ UNCHANGED <<n_env_reads, environ, pc, ns, run_number, run_index,
                   repo_number, BASE_URL, exc, n_cyclic, calls, cy>>

\* caller c calls builder fn: the parameter is bound (lines 275, 374, 554
\* and 730)
Begin(c, fn, arg) ==
    /\ pc = "loaded"
    /\ fn \in ns
    /\ threads[c].stage = "idle"
    /\ threads' = [threads EXCEPT ![c] = [stage |-> "entered", fn |-> fn,
                                          arg |-> arg, out |-> <<>>]]
    /\ UNCHANGED <<n_env_reads, environ, pc, ns, run_number, run_index,
                   repo_number, BASE_URL, scope_files, exc, n_cyclic, calls,
                   cy>>

\* the f-string of the builder is evaluated, with the global scope_files
\* as it is at this moment, and assigned to the local prompt (lines 286,
\* 384, 565 and 741)
Render(c) ==
    /\ threads[c].stage = "entered"
    /\ threads' = [threads EXCEPT
                     ![c].stage = "rendered",
                     ![c].out = BuilderOutput(threads[c].fn, threads[c].arg,
                                              scope_files)]
    /\ UNCHANGED <<n_env_reads, environ, pc, ns, run_number, run_index,
                   repo_number, BASE_URL, scope_files, exc, n_cyclic, calls,
                   cy>>

\* return prompt (lines 371, 551, 727 and 869)
Finish(c) ==
    /\ threads[c].stage = "rendered"
    /\ threads' = [threads EXCEPT ![c].stage = "returned"]
    /\ UNCHANGED <<n_env_reads, environ, pc, ns, run_number, run_index,
                   repo_number, BASE_URL, scope_files, exc, n_cyclic, calls,
                   cy>>

NextConcurrent ==
    \/ Load
    \/ \E c \in Callers, fn \in BuilderNames, arg \in ThreadArgs :
           Begin(c, fn, arg)
    \/ \E c \in Callers : Render(c)
    \/ \E c \in Callers : Finish(c)

SpecConcurrent == Init /\ [][NextConcurrent]_vars

(* -------------------- get_cyclic_index called directly ----------------- *)
RunArgs ==
    {IntVal(n) : n \in (0 - MaxRun)..MaxRun}
      \cup {IntVal(n) : n \in {MAX_REPO, MAX_REPO + 1,
                               DefaultMaxIndex, DefaultMaxIndex + 1}}
      \cup {StrVal(s) : s \in EnvStrings}

IndexArgs == ((0 - 2)..MaxIndex) \cup {MAX_REPO, DefaultMaxIndex}

\* the module loaded with GITHUB_RUN_NUMBER absent, and the arguments of
\* the call to come
InitCyclic ==
    /\ environ = EmptyEnviron
    /\ pc = "loaded"
    /\ ns = {"json", "os", "config", "MAX_REPO", "SOURCE_REPO", "REPO_NAME",
             "run_number", "get_cyclic_index", "BASE_URL", "scope_files"}
            \cup BuilderNames
    /\ run_number = EnvDefault
    /\ run_index = 0
    /\ repo_number = <<>>
    /\ BASE_URL = UrlHost \o SOURCE_REPO
    /\ scope_files = ScopeLiteral
    /\ exc = ""
    /\ n_cyclic = 0
    /\ calls = <<>>
    /\ n_env_reads = 1
    /\ threads = [c \in Callers |-> Idle]
    /\ \E r \in RunArgs, m \in IndexArgs :
          cy = [r |-> r, m |-> m, called |-> FALSE, res |-> Return(0)]

\* get_cyclic_index(r, m)
CallCyclic ==
    /\ pc = "loaded"
    /\ "get_cyclic_index" \in ns
    /\ ~cy.called
    /\ cy' = [cy EXCEPT !.called = TRUE,
                        !.res = get_cyclic_index(cy.r, cy.m)]
    /\ n_cyclic' = n_cyclic + 1
    /\ UNCHANGED <<threads, n_env_reads,
                   environ, pc, ns, run_number, run_index, repo_number,
                   BASE_URL, scope_files, exc, calls>>

\* get_cyclic_index(r): max_index takes its default
CallCyclicDefault ==
    /\ pc = "loaded"
    /\ "get_cyclic_index" \in ns
    /\ ~cy.called
    /\ cy' = [cy EXCEPT !.called = TRUE,
                        !.m = DefaultMaxIndex,
                        !.res = get_cyclic_index(cy.r, DefaultMaxIndex)]
    /\ n_cyclic' = n_cyclic + 1
    /\ UNCHANGED <<threads, n_env_reads,
                   environ, pc, ns, run_number, run_index, repo_number,
                   BASE_URL, scope_files, exc, calls>>

NextCyclic == CallCyclic \/ CallCyclicDefault

SpecCyclic == InitCyclic /\ [][NextCyclic]_vars

(* ------------------------------- claims -------------------------------- *)
\* the direct call has returned or raised, and its arguments are an integer
\* run number (an int, or a str that int() accepts) and a bound of at least 1
CyclicCallInDomain ==
    /\ cy.called
    /\ PyInt(cy.r).exc = ""
    /\ cy.m >= 1

RunValue == PyInt(cy.r).val

EndsWith(s, suffix) ==
    /\ Len(s) >= Len(suffix)
    /\ SubSeq(s, Len(s) - Len(suffix) + 1, Len(s)) = suffix

\* the statement of lines 17-24 has run
Resolved == pc \in {"scope", "def_builders", "loaded", "failed"}

\* "https://deepwiki.com/Sui-Volo/volo-smart-contracts"
CanonicalURL ==
    <<"h", "t", "t", "p", "s", ":", "/", "/", "d", "e", "e", "p", "w", "i",
      "k", "i", ".", "c", "o", "m", "/", "S", "u", "i", "-", "V", "o", "l",
      "o", "/", "v", "o", "l", "o", "-", "s", "m", "a", "r", "t", "-", "c",
      "o", "n", "t", "r", "a", "c", "t", "s">>

\* "https://deepwiki.com/grass-dev-pa/volo-smart-contracts-"
MirrorURLPrefix ==
    <<"h", "t", "t", "p", "s", ":", "/", "/", "d", "e", "e", "p", "w", "i",
      "k", "i", ".", "c", "o", "m", "/", "g", "r", "a", "s", "s", "-", "d",
      "e", "v", "-", "p", "a", "/", "v", "o", "l", "o", "-", "s", "m", "a",
      "r", "t", "-", "c", "o", "n", "t", "r", "a", "c", "t", "s", "-">>

\* n in 0..999 written as three decimal digits
ThreeDigits(n) ==
    <<DigitChar(n \div 100), DigitChar((n \div 10) % 10), DigitChar(n % 10)>>

\* C1: for every integer run number r >= 1 and every bound m >= 1,
\* get_cyclic_index(r, m) returns a value v with 1 <= v <= m.
C1_ResultInRange ==
    (CyclicCallInDomain /\ RunValue >= 1)
        => (cy.res.exc = "" /\ cy.res.val >= 1 /\ cy.res.val <= cy.m)

\* a call whose result is the bound itself
C1_Witness ==
    /\ CyclicCallInDomain
    /\ cy.r = IntVal(8)
    /\ cy.m = 4
    /\ cy.res = Return(4)

\* C2: for every run number r that parses as an integer and every positive
\* bound max_index, get_cyclic_index(r, max_index) is ((r - 1) mod max_index)
\* + 1 with the non-negative remainder: the result less one lies in
\* 0 .. max_index - 1 and differs from r - 1 by a multiple of max_index.
C2_IsShiftedRemainder ==
    CyclicCallInDomain
        => /\ cy.res.exc = ""
           /\ cy.res.val - 1 \in 0..(cy.m - 1)
           /\ LET span == (IF RunValue < 0 THEN 0 - RunValue ELSE RunValue) + 1
              IN  \E k \in (0 - span)..span :
                      RunValue - 1 = k * cy.m + (cy.res.val - 1)

\* the str "31" against the bound 30
C2_Witness ==
    /\ CyclicCallInDomain
    /\ cy.r = StrVal(<<"3", "1">>)
    /\ cy.m = 30
    /\ cy.res = Return(1)

\* C3: get_cyclic_index is periodic in the run number with period m: for
\* r >= 1 and m >= 1, get_cyclic_index(r, m) = get_cyclic_index(r + m, m).
C3_Periodic ==
    (CyclicCallInDomain /\ RunValue >= 1)
        => cy.res = get_cyclic_index(IntVal(RunValue + cy.m), cy.m)

C3_Witness ==
    /\ CyclicCallInDomain
    /\ cy.r = IntVal(2)
    /\ cy.m = 3
    /\ cy.res = Return(2)
    /\ get_cyclic_index(IntVal(5), 3) = Return(2)

\* C4: for every bound m >= 1, get_cyclic_index(1, m) = 1, and the first
\* run number past the bound wraps around: get_cyclic_index(m + 1, m) = 1.
C4_BaseAndWrap ==
    (CyclicCallInDomain /\ RunValue \in {1, cy.m + 1}) => cy.res = Return(1)

\* run number 5 against the bound 4
C4_Witness ==
    /\ CyclicCallInDomain
    /\ cy.m = 4
    /\ cy.r = IntVal(cy.m + 1)
    /\ cy.res = Return(1)

\* C5: when the run counter read at start-up is exactly the string "0",
\* BASE_URL is exactly https://deepwiki.com/Sui-Volo/volo-smart-contracts
\* and get_cyclic_index is not called.
C5_SentinelSelectsCanonical ==
    (Resolved /\ run_number = <<"0">>)
        => /\ exc = ""
           /\ "BASE_URL" \in ns
           /\ BASE_URL = CanonicalURL
           /\ n_cyclic = 0

\* GITHUB_RUN_NUMBER set to "0", and the module loaded
C5_Witness ==
    /\ pc = "loaded"
    /\ environ = EnvironWith(<<"0">>)
    /\ run_number = <<"0">>
    /\ BASE_URL = CanonicalURL

\* C6: when GITHUB_RUN_NUMBER is absent at start-up, the run counter takes
\* the value "0" and BASE_URL resolves to the canonical URL, never to a
\* mirror URL.
C6_AbsentSelectsCanonical ==
    (RunNumberKey \notin DOMAIN environ)
        => /\ "run_number" \in ns => run_number = <<"0">>
           /\ Resolved => (exc = "" /\ BASE_URL = CanonicalURL)
           /\ ~(/\ Len(BASE_URL) >= Len(MirrorURLPrefix)
                /\ SubSeq(BASE_URL, 1, Len(MirrorURLPrefix)) = MirrorURLPrefix)

C6_Witness ==
    /\ pc = "loaded"
    /\ environ = EmptyEnviron
    /\ run_number = <<"0">>
    /\ BASE_URL = CanonicalURL

C9_MalformedRaises ==
    (/\ Resolved
     /\ RunNumberKey \in DOMAIN environ
     /\ PyInt(StrVal(environ[RunNumberKey])).exc # "")
        => /\ pc = "failed"
           /\ exc = "ValueError"
           /\ "BASE_URL" \notin ns
           /\ BASE_URL = <<>>

C9_Witness ==
    /\ pc = "failed"
    /\ environ = EnvironWith(<<"1", "x">>)
    /\ exc = "ValueError"

\* C10: each of the four prompt builders is deterministic: after any
\* sequence of earlier builder calls, two calls of the same builder with
\* the same input return the same output.
C10_BuildersDeterministic ==
    \A i, j \in 1..Len(calls) :
        (calls[i].fn = calls[j].fn /\ calls[i].arg = calls[j].arg)
            => calls[i].out = calls[j].out

\* validation_format called twice with the same report
C10_Witness ==
    /\ Len(calls) >= 2
    /\ calls[1].fn = "validation_format"
    /\ calls[2].fn = "validation_format"
    /\ calls[1].arg = <<"a">>
    /\ calls[2].arg = <<"a">>
    /\ calls[1].out = calls[2].out

\* sub is a contiguous part of s
Contains(s, sub) ==
    \E i \in 0..(Len(s) - Len(sub)) : SubSeq(s, i + 1, i + Len(sub)) = sub

\* the tokens of s
Tokens(s) == {s[i] : i \in 1..Len(s)}

\* the prompt builder call that returned last; every recorded call is the
\* last one in the state its return leads to
LastCall == calls[Len(calls)]

\* C11: for every input string, the output of question_generator contains
\* the target file path passed in, and the output of validation_format
\* contains the report passed in, as an unmodified contiguous substring.
C11_InputContained ==
    (calls # <<>>
       /\ LastCall.fn \in {"question_generator", "validation_format"})
        => (LastCall.exc = "" /\ Contains(LastCall.out, LastCall.arg))

C11_Witness ==
    /\ Len(calls) = 2
    /\ calls[1].fn = "question_generator"
    /\ calls[1].arg = <<"a">>
    /\ Contains(calls[1].out, <<"a">>)
    /\ calls[2].fn = "validation_format"
    /\ calls[2].arg = <<"{scope_files}">>
    /\ Contains(calls[2].out, <<"{scope_files}">>)

\* C12: for every report, the output of validation_format contains every
\* path of the scope_files registry at least once.
C12_EveryPathRendered ==
    (calls # <<>> /\ LastCall.fn = "validation_format")
        => /\ LastCall.exc = ""
           /\ Tokens(ScopeLiteral) \subseteq Tokens(LastCall.out)

C12_Witness ==
    /\ calls # <<>>
    /\ LastCall.fn = "validation_format"
    /\ LastCall.arg = <<"a">>
    /\ "liquid_staking/sources/stake_pool.move" \in Tokens(LastCall.out)
    /\ Cardinality(Tokens(ScopeLiteral) \cap Tokens(LastCall.out)) = 121

\* C13, as stated: every one of the four prompt builders embeds the Scope
\* Registry in the string it returns.
C13_EveryBuilderEmbedsRegistry ==
    calls # <<>> => Contains(LastCall.out, PyStrList(scope_files))

\* C13, amended: of the four prompt builders only validation_format
\* references the Scope Registry and embeds it, rendered as a list, in the
\* string it returns; question_generator, audit_format and scan_format do
\* not embed it.
C13_OnlyValidationEmbedsRegistry ==
    calls # <<>>
        => (LastCall.fn = "validation_format"
              <=> Contains(LastCall.out, PyStrList(scope_files)))

\* one builder with the registry in its output, another without it
C13_Witness ==
    /\ Len(calls) = 2
    /\ calls[1].fn = "validation_format"
    /\ Contains(calls[1].out, PyStrList(scope_files))
    /\ calls[2].fn = "audit_format"
    /\ ~Contains(calls[2].out, PyStrList(scope_files))

\* C14: no call of a prompt builder changes the Scope Registry, the run
\* counter or BASE_URL, so after any sequence of builder calls all three
\* have the values they had when the load of the module ended.
C14_BuildersLeaveGlobals ==
    [][calls' # calls
         => /\ scope_files' = scope_files
            /\ run_number' = run_number
            /\ BASE_URL' = BASE_URL]_vars

\* two builder calls made, the globals as the load left them
C14_Witness ==
    /\ Len(calls) = 2
    /\ calls[1].fn = "validation_format"
    /\ scope_files = ScopeLiteral
    /\ run_number = <<"3", "1">>
    /\ BASE_URL = MirrorURLPrefix \o <<"0", "0", "1">>

\* C15: each prompt builder is total over string inputs: for every string
\* argument, the empty string and strings with braces included, the call
\* returns a string and does not end in an error.
C15_BuildersTotal ==
    calls # <<>>
        => /\ LastCall.exc = ""
           /\ LastCall.out \in Seq(Tokens(LastCall.out))
           /\ LastCall.out # <<>>

\* calls with the empty string and with the text of a replacement field
C15_Witness ==
    /\ Len(calls) = 2
    /\ calls[1].fn = "audit_format"
    /\ calls[1].arg = <<"{scope_files}">>
    /\ calls[1].exc = ""
    /\ calls[2].fn = "scan_format"
    /\ calls[2].arg = <<>>
    /\ calls[2].exc = ""

\* the number of times token t occurs in s
Count(s, t) == Cardinality({i \in 1..Len(s) : s[i] = t})

\* C18: a prompt builder substitutes its input exactly once and does not
\* interpret it again: an input that holds the text of a replacement field
\* appears as it is, and nothing is expanded in its place.  The output is
\* as long as the output for the empty input plus one copy of the input
\* per field, and holds each token of the input once per field and per
\* occurrence in the input.
C18_InputNotReinterpreted ==
    calls # <<>>
        => LET k == ParameterFields(LastCall.fn)
               empty == BuilderOutput(LastCall.fn, <<>>, scope_files)
           IN  /\ Contains(LastCall.out, LastCall.arg)
               /\ Len(LastCall.out) = Len(empty) + k * Len(LastCall.arg)
               /\ \A t \in Tokens(LastCall.arg) :
                      Count(LastCall.out, t) = k * Count(LastCall.arg, t)

\* a report that is the text {scope_files}
C18_Witness ==
    /\ calls # <<>>
    /\ LastCall.fn = "validation_format"
    /\ LastCall.arg = <<"{scope_files}">>
    /\ Count(LastCall.out, "{scope_files}") = 1
    /\ Contains(LastCall.out, PyStrList(scope_files))

\* C16: under any interleaving of concurrent prompt builder calls, each
\* call returns the string it would return when run alone, that is with
\* the registry as the load left it, and no step of a call writes the data
\* the calls share.
C16_ConcurrentCallsIndependent ==
    /\ [](\A c \in Callers :
             threads[c].stage = "returned"
                 => threads[c].out = BuilderOutput(threads[c].fn,
                                                   threads[c].arg,
                                                   ScopeLiteral))
    /\ [][threads' # threads
            => /\ scope_files' = scope_files
               /\ run_number' = run_number
               /\ BASE_URL' = BASE_URL]_vars

\* one call of validation_format returned while another, entered before
\* the first was rendered, is still in progress
C16_Witness ==
    /\ threads[1].stage = "returned"
    /\ threads[1].fn = "validation_format"
    /\ threads[2].stage = "rendered"
    /\ threads[2].fn = "validation_format"
    /\ threads[1].arg # threads[2].arg
    /\ Contains(threads[1].out, PyStrList(ScopeLiteral))

\* the BASE_URL that belongs to run counter r
URLOf(r) ==
    IF r = <<"0">> THEN CanonicalURL
    ELSE MirrorURLPrefix \o ThreeDigits(get_cyclic_index(StrVal(r), 30).val)

\* C17: the run counter is read from the environment exactly once, while
\* the module is loaded, and BASE_URL is computed exactly once from it: a
\* later change of the environment variable changes neither the run
\* counter nor BASE_URL.
C17_ReadOnceComputedOnce ==
    /\ [](/\ n_env_reads = (IF "run_number" \in ns THEN 1 ELSE 0)
          /\ "BASE_URL" \in ns => BASE_URL = URLOf(run_number))
    /\ [][/\ "run_number" \in ns
             => ("run_number" \in ns' /\ run_number' = run_number)
          /\ "BASE_URL" \in ns
             => ("BASE_URL" \in ns' /\ BASE_URL' = BASE_URL)]_vars

\* the variable removed after the load read "31" from it
C17_Witness ==
    /\ pc = "loaded"
    /\ environ = EmptyEnviron
    /\ run_number = <<"3", "1">>
    /\ BASE_URL = MirrorURLPrefix \o <<"0", "0", "1">>
    /\ n_env_reads = 1

\* C19: the Scope Registry is one sequence of paths followed by the same
\* sequence again: its length is even, element i equals element i + n/2
\* for every i of the first half, and every path occurs an even number of
\* times, exactly twice as the first half has no repeats.
C19_RegistryIsDoubled ==
    "scope_files" \in ns
        => LET n == Len(scope_files)
               h == n \div 2
           IN  /\ n > 0
               /\ n = 2 * h
               /\ \A i \in 1..h : scope_files[i] = scope_files[i + h]
               /\ Cardinality(Tokens(SubSeq(scope_files, 1, h))) = h
               /\ \A i \in 1..n : Count(scope_files, scope_files[i]) = 2

\* the registry bound, with its 242 entries and 121 paths
C19_Witness ==
    /\ "scope_files" \in ns
    /\ Len(scope_files) = 242
    /\ Cardinality(Tokens(scope_files)) = 121
    /\ scope_files[1] = scope_files[122]

\* the mirror URLs -001 ... -030 and the canonical URL
ReachableURLs ==
    {CanonicalURL} \cup {MirrorURLPrefix \o ThreeDigits(i) : i \in 1..30}

C22_RangeBelowOne ==
    (CyclicCallInDomain /\ RunValue <= 0)
        => /\ cy.res.exc = ""
           /\ cy.res.val >= 1
           /\ cy.res.val <= cy.m
           /\ RunValue = 0 => cy.res.val = cy.m
           /\ (RunValue = 0 - 1 /\ cy.m >= 2) => cy.res.val = cy.m - 1

\* run number -1 against the bound 4
C22_Witness ==
    /\ CyclicCallInDomain
    /\ cy.r = IntVal(0 - 1)
    /\ cy.m = 4
    /\ cy.res = Return(3)

\* C23: successive run numbers rotate through the indices in order: for
\* r >= 1 and m >= 1, get_cyclic_index(r + 1, m) is (get_cyclic_index(r, m)
\* mod m) + 1, so the m run numbers r .. r + m - 1 map onto each index of
\* 1..m exactly once.
C23_RotatesInOrder ==
    (CyclicCallInDomain /\ RunValue >= 1)
        => /\ get_cyclic_index(IntVal(RunValue + 1), cy.m)
                = Return((cy.res.val % cy.m) + 1)
           /\ {get_cyclic_index(IntVal(RunValue + j), cy.m).val :
                   j \in 0..(cy.m - 1)} = 1..cy.m

\* run number 8 is the last of a round of 4, run number 9 starts the next
C23_Witness ==
    /\ CyclicCallInDomain
    /\ cy.r = IntVal(8)
    /\ cy.m = 4
    /\ cy.res = Return(4)
    /\ get_cyclic_index(IntVal(9), 4) = Return(1)

\* the names of lines 17-869
NamesAfterResolution == {"BASE_URL", "scope_files"} \cup BuilderNames

\* C24: BASE_URL is resolved before the Scope Registry and the four prompt
\* builders are defined, so a malformed run counter ends the load of the
\* module as a whole: neither BASE_URL nor scope_files nor any prompt
\* builder is bound in the state that results, that state is final, and no
\* builder call ever happens.
C24_MalformedEndsLoad ==
    /\ []((ns \cap ({"scope_files"} \cup BuilderNames) # {})
              => ("BASE_URL" \in ns /\ pc \in {"def_builders", "loaded"}))
    /\ []((Resolved /\ PyInt(StrVal(run_number)).exc # "")
              => /\ pc = "failed"
                 /\ ns \cap NamesAfterResolution = {}
                 /\ calls = <<>>
                 /\ \A c \in Callers : threads[c] = Idle)
    /\ [][pc = "failed" => UNCHANGED vars]_vars

\* the load ended by the run counter "x"
C24_Witness ==
    /\ pc = "failed"
    /\ run_number = <<"x">>
    /\ exc = "ValueError"
    /\ "get_cyclic_index" \in ns
    /\ ns \cap NamesAfterResolution = {}

====
